---- MODULE Spec2Model ----
(***************************************************************************)
(* Model of the news scrapers of shubhamgup402/news_data:                  *)
(*   news_scraper_final.py  (financial mode)                               *)
(*   news_scraper.py        (general mode)                                 *)
(* The paginated fetch loop of fetch_news_for_date, the per-candidate      *)
(* timestamp resolution chain and the day loop of scrape_news_day_by_day.  *)
(* Instants are whole minutes counted from 2017-01-01 00:00.               *)
(***************************************************************************)
EXTENDS Integers, Sequences, FiniteSets, TLC

\* ---------------------------------------------------------------- bounds
MaxDays   == 2   \* longest date range explored (days in [start_date, end_date])
MaxPages  == 3   \* most non-empty result pages served for one day
MaxBlocks == 2   \* most result blocks on one search page
Max429    == 2   \* most 429 responses served for one day
MaxN      == 3   \* largest N in an "N <unit> ago" label

\* ------------------------------------------------------- program constants
MAX_RETRIES     == 3      \* retries > 3
BACKOFF_BASE    == 2      \* time.sleep(2 ** retries)
PAGE_SIZE       == 10     \* start += 10
COOLDOWN_EVERY  == 30     \* start % 30 == 0
RATE_LIMIT_MIN  == 30     \* random.randint(30, 90)
RATE_LIMIT_MAX  == 90
POLITE_MIN      == 5      \* random.uniform(5, 15)
POLITE_MAX      == 15
GENERAL_MIN     == 1      \* random.uniform(1, 3)
GENERAL_MAX     == 3
COOLDOWN_MIN    == 60     \* random.uniform(60, 120)
COOLDOWN_MAX    == 120
STATUS_OK       == 200
STATUS_TOO_MANY == 429

MinutesPerHour == 60
MinutesPerDay  == 1440
MinutesPerWeek == 10080

\* ------------------------------------------------------------ option values
\* A Python value that is a datetime, None, or an exception in flight.
None     == [tag |-> "none",  val |-> 0]
Some(v)  == [tag |-> "some",  val |-> v]
Raised   == [tag |-> "raise", val |-> 0]
IsSome(o) == o.tag = "some"

\* a or b  (Python truthiness: a datetime is truthy, None is falsy);
\* an exception raised while evaluating a is in flight before b is looked at
OrElse(a, b) == IF a.tag = "none" THEN b ELSE a

\* ------------------------------------------------------------------- time
\* datetime.date() and datetime.time() of an instant
DateOf(dt) == dt \div MinutesPerDay
TimeOf(dt) == dt % MinutesPerDay
\* datetime.combine(d, t)
Combine(d, t) == d * MinutesPerDay + t

\* strftime("%d-%m-%Y %H:%M:%S"): the printed fields of an instant
Strftime(dt) == [date |-> DateOf(dt),
                 hh   |-> TimeOf(dt) \div MinutesPerHour,
                 mm   |-> TimeOf(dt) % MinutesPerHour]

\* ------------------------------------------------------------------- text
\* A string is modelled by what the code asks of it:
\*   words : its tokens in order, a token being a word or a run of digits
\*   form  : how a date parser sees it
\*           "iso"     ISO-8601 with a numeric offset
\*           "iso_z"   ISO-8601 ending in Z
\*           "text"    matches exactly the strptime format named in fmt
\*           "text_tz" as "text" but followed by one of IST / GMT / UTC
\*           "junk"    no date in it
\*           "nonstr"  not a string at all (a JSON number, list or object)
\*   val   : the instant it denotes when it denotes one
Word(w) == [w |-> w, n |-> -1]
Num(n)  == [w |-> "#", n |-> n]
Text(words, form, fmt, val) == [words |-> words, form |-> form, fmt |-> fmt, val |-> val]
Phrase(words) == Text(words, "junk", "", 0)

\* str.lower() on one token
LowerWord(w) ==
    CASE w = "Yesterday" -> "yesterday"
      [] w = "Hours"     -> "hours"
      [] w = "Ago"       -> "ago"
      [] w = "Reliance"  -> "reliance"
      [] w = "RELIANCE"  -> "reliance"
      [] w = "RIL"       -> "ril"
      [] w = "Jio"       -> "jio"
      [] w = "Firm"      -> "firm"
      [] w = "Shares"    -> "shares"
      [] w = "Dividend"  -> "dividend"
      [] w = "New"       -> "new"
      [] w = "April"     -> "april"
      [] w = "No"        -> "no"
      [] OTHER           -> w
Lower(words) == [i \in 1..Len(words) |-> [w |-> LowerWord(words[i].w), n |-> words[i].n]]

\* needle in txt, for the needles the code looks for
WordsContaining(needle) ==
    CASE needle = "hour"      -> {"hour", "hours"}
      [] needle = "minute"    -> {"minute", "minutes"}
      [] needle = "day"       -> {"day", "days", "yesterday", "today"}
      [] needle = "ago"       -> {"ago"}
      [] needle = "week"      -> {"week", "weeks"}
      [] needle = "yesterday" -> {"yesterday"}
      [] OTHER                -> {}
Contains(txt, needle) == \E i \in 1..Len(txt) : txt[i].w \in WordsContaining(needle)

\* re.search(r"(\d+)", txt): the first run of digits, None when there is none
FirstNumber(txt) ==
    IF \E i \in 1..Len(txt) : txt[i].n >= 0
    THEN Some(txt[CHOOSE i \in 1..Len(txt) :
                    /\ txt[i].n >= 0
                    /\ \A j \in 1..(i-1) : txt[j].n < 0].n)
    ELSE None

\* ------------------------------------------------------------ date parsing
STRPTIME_FORMATS == {
    "%A, %B %d, %Y, %H:%M", "%A, %B %d, %Y, %I:%M %p", "%B %d, %Y %I:%M %p",
    "%B %d, %Y, %I:%M %p", "%B %d, %Y, %H:%M", "%d %B %Y, %H:%M",
    "%d %B %Y %H:%M", "%d %b %Y, %H:%M", "%d %b %Y %H:%M",
    "%b %d, %Y %I:%M %p", "%Y-%m-%d %H:%M:%S" }

LABEL_FORMATS == { "%d %b %Y", "%b %d, %Y", "%B %d, %Y", "%d %B %Y" }

\* s.strip() is outside the try: a non-string raises; fromisoformat errors
\* are caught and give None
_from_iso(s) ==
    IF s.form = "nonstr" THEN Raised
    ELSE LET replaced == IF s.form = "iso_z" THEN "iso" ELSE s.form
         IN  IF replaced = "iso" THEN Some(s.val) ELSE None

\* s.strip() is outside the loop's try: a non-string raises
_try_many_strptime(s, fmts) ==
    IF s.form = "nonstr" THEN Raised
    ELSE IF s.form = "text" /\ s.fmt \in fmts THEN Some(s.val) ELSE None

\* re.sub(r"\b(IST|GMT|UTC)\b", "", s): the zone word goes, the rest stays
_strip_tz_words(s) ==
    IF s.form = "text_tz" THEN [s EXCEPT !.form = "text"] ELSE s

\* _from_iso(s) or _try_many_strptime(_strip_tz_words(s), STRPTIME_FORMATS)
ParseDateString(s) ==
    LET iso == _from_iso(s)
    IN  IF iso.tag = "raise" THEN Raised
        ELSE OrElse(iso, _try_many_strptime(_strip_tz_words(s), STRPTIME_FORMATS))

\* ------------------------------------------------------ parse_relative_time
\* the first "if" of the relative block whose test is true
RelativeBranch(txt) ==
    IF Contains(txt, "hour") THEN "hour"
    ELSE IF Contains(txt, "minute") THEN "minute"
    ELSE IF Contains(txt, "day") /\ Contains(txt, "ago") THEN "day"
    ELSE IF Contains(txt, "week") THEN "week"
    ELSE IF Contains(txt, "yesterday") THEN "yesterday"
    ELSE "none"

\* weeks taken for days
UnitMinutes_WeekAsDay(branch) ==
    CASE branch = "hour"   -> MinutesPerHour
      [] branch = "minute" -> 1
      [] OTHER             -> MinutesPerDay

UnitMinutes(branch) ==
    CASE branch = "hour"   -> MinutesPerHour
      [] branch = "minute" -> 1
      [] branch = "day"    -> MinutesPerDay
      [] branch = "week"   -> MinutesPerWeek
      [] OTHER             -> MinutesPerDay

\* the try block: re.search(...).group(1) on no match raises, which the
\* except swallows (Raised here), and no later branch is tried
RelativePart(txt, now) ==
    LET branch == RelativeBranch(txt)
        n      == FirstNumber(txt)
    IN  IF branch = "none" THEN None
        ELSE IF branch = "yesterday" THEN Some(now - MinutesPerDay)
        ELSE IF n.tag = "none" THEN Raised
        ELSE Some(now - n.val * UnitMinutes(branch))

\* datetime.combine(base_date.date(), now.time())
LabelFallback(base_date, now) == Combine(DateOf(base_date), TimeOf(now))

parse_relative_time(relative_text, base_date, now) ==
    LET txt     == Lower(relative_text.words)
        rel     == RelativePart(txt, now)
        abs_try == _try_many_strptime(relative_text, LABEL_FORMATS)
    IN  IF rel.tag = "some" THEN rel.val
        ELSE IF abs_try.tag = "some" THEN abs_try.val
        ELSE LabelFallback(base_date, now)

\* ------------------------------------------------ extract_article_timestamp
\* the first result of a loop that returns on the first datetime; an
\* exception met before that leaves the loop
FirstResult(rs) ==
    IF \E i \in 1..Len(rs) : rs[i].tag # "none"
    THEN rs[CHOOSE i \in 1..Len(rs) :
              /\ rs[i].tag # "none"
              /\ \A j \in 1..(i-1) : rs[j].tag = "none"]
    ELSE None

ARTICLE_TYPES == {"NewsArticle", "Article", "ReportageNewsArticle", "BlogPosting"}
DATE_KEYS     == <<"datePublished", "dateCreated", "uploadDate", "dateModified">>

META_PROP_KEYS == <<"article:published_time", "article:modified_time",
                    "og:updated_time", "og:pubdate">>
META_NAME_KEYS == <<"pubdate", "publish-date", "publishdate", "date", "dc.date",
                    "dc.date.issued", "article:published_time",
                    "article:modified_time", "parsely-pub-date">>
ITEMPROP_KEYS  == <<"datePublished", "dateModified">>

\* pick_from(d): d is a JSON value [kind, type, dates, graph]; dates maps a
\* key to <<>> (absent or falsy) or <<value>>
RECURSIVE pick_from(_)
pick_from(d) ==
    IF d.kind # "dict" THEN None
    ELSE LET own == IF d.type \in ARTICLE_TYPES
                    THEN FirstResult([i \in 1..Len(DATE_KEYS) |->
                            IF d.dates[DATE_KEYS[i]] = <<>> THEN None
                            ELSE ParseDateString(d.dates[DATE_KEYS[i]][1])])
                    ELSE None
         IN  IF own.tag # "none" THEN own
             ELSE FirstResult([i \in 1..Len(d.graph) |-> pick_from(d.graph[i])])

\* one <script type="application/ld+json">: json.loads, the trailing-comma
\* repair, then pick_from over the value or over the items of a list
ScriptResult(sc) ==
    IF sc.json \notin {"valid", "repairable"} THEN None
    ELSE IF sc.data.kind = "list"
         THEN FirstResult([i \in 1..Len(sc.data.items) |-> pick_from(sc.data.items[i])])
         ELSE pick_from(sc.data)

JsonLdStage(page) ==
    FirstResult([i \in 1..Len(page.scripts) |-> ScriptResult(page.scripts[i])])

\* soup.find("meta", {attr: key}): the first such tag of the document
FindMeta(page, attr, key) ==
    LET hits == { i \in 1..Len(page.metas) :
                    page.metas[i].attr = attr /\ page.metas[i].key = key }
    IN  IF hits = {} THEN <<>>
        ELSE <<page.metas[CHOOSE i \in hits : \A j \in hits : i <= j]>>

MetaLoop(page, attr, keys) ==
    FirstResult([k \in 1..Len(keys) |->
        LET tag == FindMeta(page, attr, keys[k])
        IN  IF tag = <<>> \/ tag[1].content = <<>> THEN None
            ELSE ParseDateString(tag[1].content[1])])

MetaStage(page) ==
    LET byProp == MetaLoop(page, "property", META_PROP_KEYS)
        byName == MetaLoop(page, "name", META_NAME_KEYS)
        byItem == MetaLoop(page, "itemprop", ITEMPROP_KEYS)
    IN  IF byProp.tag # "none" THEN byProp
        ELSE IF byName.tag # "none" THEN byName
        ELSE byItem

\* one <time>: its datetime attribute, else its visible text (no ISO try)
TimeTagResult(t) ==
    LET byAttr == IF t.datetime = <<>> THEN None ELSE ParseDateString(t.datetime[1])
    IN  IF byAttr.tag # "none" THEN byAttr
        ELSE IF t.text = <<>> THEN None
        ELSE _try_many_strptime(_strip_tz_words(t.text[1]), STRPTIME_FORMATS)

TimeStage(page) ==
    FirstResult([i \in 1..Len(page.times) |-> TimeTagResult(page.times[i])])

\* page.visible[p] is <<>> when VISIBLE_PATTERNS[p] finds nothing in the page
\* text, else <<m.group(0)>>
VisibleResult(m) ==
    IF m = <<>> THEN None
    ELSE LET s   == _strip_tz_words(m[1])
             iso == IF s.form \in {"iso", "iso_z"} THEN _from_iso(s) ELSE None
         IN  IF iso.tag # "none" THEN iso
             ELSE _try_many_strptime(s, STRPTIME_FORMATS)

VisibleStage(page) ==
    FirstResult([p \in 1..Len(page.visible) |-> VisibleResult(page.visible[p])])

\* requests.get raising, a status other than 200 and an empty body all give
\* None; so does any exception that leaves a stage (the outer except)
extract_article_timestamp(page) ==
    IF page.fetch # "ok" THEN None
    ELSE LET r1 == JsonLdStage(page)
             r2 == MetaStage(page)
             r3 == TimeStage(page)
             r4 == VisibleStage(page)
             r  == IF r1.tag # "none" THEN r1
                   ELSE IF r2.tag # "none" THEN r2
                   ELSE IF r3.tag # "none" THEN r3
                   ELSE r4
         IN  IF r.tag = "raise" THEN None ELSE r

\* ------------------------------------------------------------- candidates
\* urljoin("https://www.google.com", href) and clean_url: a relative href
\* takes the search engine's host; query, params and fragment are dropped
urljoin(href) == IF href.netloc = "" THEN [href EXCEPT !.netloc = "www.google.com"] ELSE href
clean_url(url) == [url EXCEPT !.query = ""]

NO_SUMMARY == Phrase(<<Word("No"), Word("summary")>>)

\* langdetect and googletrans are black boxes: one headline of the
\* catalogue is not English and has one translation
HINDI_TITLE      == Phrase(<<Word("reliance"), Word("jio"), Word("ka"), Word("munafa")>>)
TRANSLATED_TITLE == Phrase(<<Word("Reliance"), Word("Jio"), Word("profit"), Word("rises")>>)
is_english(text) == text # HINDI_TITLE
translate_to_english(text) == IF text = HINDI_TITLE THEN TRANSLATED_TITLE ELSE text

\* the words of a lower-cased string, digits as their own tokens
LowerWords(text) == [i \in 1..Len(text.words) |-> LowerWord(text.words[i].w)]

\* a match without the word boundaries, kw in title_lower: "ril" is found
\* inside "april"
HasWholeWords_Substring(ws, kw) ==
    LET KeywordInside(w) == IF w = "april" THEN {"ril"} ELSE {}
    IN  \E i \in 1..(Len(ws) - Len(kw) + 1) :
           \A j \in 1..Len(kw) :
              ws[i + j - 1] = kw[j] \/ kw[j] \in KeywordInside(ws[i + j - 1])

\* re.search(rf"\b{kw}\b", title_lower): kw occurs as whole words
HasWholeWords(ws, kw) ==
    \E i \in 1..(Len(ws) - Len(kw) + 1) : \A j \in 1..Len(kw) : ws[i + j - 1] = kw[j]

FIXED_KEYWORDS == { <<"reliance", "industries">>, <<"ril">>, <<"mukesh", "ambani">>,
                    <<"reliance", "jio">>, <<"reliance", "retail">> }

is_strictly_relevant(title, stock_name, extra_keywords) ==
    LET title_lower       == LowerWords(title)
        required_keywords == {LowerWords(stock_name)} \cup FIXED_KEYWORDS
                             \cup {LowerWords(kw) : kw \in extra_keywords}
    IN  \E kw \in required_keywords : HasWholeWords(title_lower, kw)

\* word in text, a substring test: the finance keywords that occur inside a
\* lower-cased word of the catalogue
FinanceInside(w) ==
    CASE w = "profit"    -> {"profit"}
      [] w = "shares"    -> {"share"}
      [] w = "dividend"  -> {"dividend"}
      [] w = "munafa"    -> {}
      [] OTHER           -> {}

is_financial_news(title, snippet) ==
    LET text == LowerWords(title) \o LowerWords(snippet)
    IN  \E i \in 1..Len(text) : FinanceInside(text[i]) # {}

\* format_date: strftime("%d/%m/%Y")
format_date(date) == DateOf(date)

\* a fallback that keeps today's date
FinalFallback_Now(date, now) == now

\* final fallback: datetime.combine(date.date(), now.time())
FinalFallback(date, now) == Combine(DateOf(date), TimeOf(now))

\* a resolution without its last step
ResolveTimestamp_NoFallback(block, page, date, now) ==
    LET found == extract_article_timestamp(page)
    IN  IF found.tag = "some"
        THEN [extracted |-> found, article_time |-> found, via |-> "article"]
        ELSE IF block.time_tag # <<>>
        THEN [extracted |-> found,
              article_time |-> Some(parse_relative_time(block.time_tag[1], date, now)),
              via |-> "label"]
        ELSE [extracted |-> found, article_time |-> None, via |-> "fallback"]

\* a resolution that asks the search engine's label first
ResolveTimestamp_LabelFirst(block, page, date, now) ==
    LET found == extract_article_timestamp(page)
    IN  IF block.time_tag # <<>>
        THEN [extracted |-> found,
              article_time |-> Some(parse_relative_time(block.time_tag[1], date, now)),
              via |-> "label"]
        ELSE IF found.tag = "some"
        THEN [extracted |-> found, article_time |-> found, via |-> "article"]
        ELSE [extracted |-> found,
              article_time |-> Some(FinalFallback(date, now)),
              via |-> "fallback"]

\* the three-step resolution of one candidate; via names the step whose
\* value is kept
ResolveTimestamp(block, page, date, now) ==
    LET found == extract_article_timestamp(page)
    IN  IF found.tag = "some"
        THEN [extracted |-> found, article_time |-> found, via |-> "article"]
        ELSE IF block.time_tag # <<>>
        THEN [extracted |-> found,
              article_time |-> Some(parse_relative_time(block.time_tag[1], date, now)),
              via |-> "label"]
        ELSE [extracted |-> found,
              article_time |-> Some(FinalFallback(date, now)),
              via |-> "fallback"]

\* article_time.strftime(...): <<>> stands for the failed call on None
FormatTimestamp(article_time) ==
    IF article_time.tag = "some" THEN <<Strftime(article_time.val)>> ELSE <<>>

\* {item['title']: item for item in day_articles}.values(): one record per
\* title, in the order the titles first appear, each the last with its title
RECURSIVE DedupFrom(_, _)
DedupFrom(items, i) ==
    IF i > Len(items) THEN <<>>
    ELSE IF \E j \in 1..(i-1) : items[j].title = items[i].title
         THEN DedupFrom(items, i + 1)
         ELSE LET last == CHOOSE k \in i..Len(items) :
                              /\ items[k].title = items[i].title
                              /\ \A m \in (k+1)..Len(items) : items[m].title # items[i].title
              IN  <<items[last]>> \o DedupFrom(items, i + 1)

\* a dedup that keeps the last record of each title at that record's place
Dedup_LastPlace(items) ==
    LET Kept[i \in 0..Len(items)] ==
            IF i = 0 THEN <<>>
            ELSE IF \E j \in (i+1)..Len(items) : items[j].title = items[i].title
                 THEN Kept[i - 1]
                 ELSE Append(Kept[i - 1], items[i])
    IN  Kept[Len(items)]

\* a dedup that keeps the first record of each title
Dedup_FirstWins(items) ==
    LET Kept[i \in 0..Len(items)] ==
            IF i = 0 THEN <<>>
            ELSE IF \E j \in 1..(i-1) : items[j].title = items[i].title
                 THEN Kept[i - 1]
                 ELSE Append(Kept[i - 1], items[i])
    IN  Kept[Len(items)]

Dedup(items) == DedupFrom(items, 1)

\* ------------------------------------------------------------ input data
\* instants and days used by the inputs
START_DATE == Combine(282, 0)       \* 2017-10-10 00:00, strptime("%d-%m-%Y")
NOW_A      == Combine(284, 685)     \* 2017-10-12 11:25
NOW_B      == Combine(285, 30)      \* 2017-10-13 00:30
PUBLISHED  == Combine(283, 1150)    \* 2017-10-11 19:10
MODIFIED   == Combine(283, 1200)    \* 2017-10-11 20:00
Clock      == {NOW_A, NOW_B}

STOCK_NAME == Phrase(<<Word("Reliance")>>)

Url(netloc, path, query) == [netloc |-> netloc, path |-> path, query |-> query]

\* time labels of the search engine
Ago(n, unit) == Phrase(<<Num(n), Word(unit), Word("ago")>>)
RelativeUnits == {"hour", "hours", "minute", "minutes", "day", "days", "week", "weeks"}
RelativeLabels == { Ago(n, u) : n \in 0..MaxN, u \in RelativeUnits }
YesterdayLabels == { Phrase(<<Word("Yesterday")>>), Phrase(<<Word("yesterday")>>) }
ABSOLUTE_LABEL == Text(<<Word("Oct"), Num(10), Num(2017)>>, "text", "%b %d, %Y", Combine(282, 0))
\* labels that are neither a relative phrase the code resolves nor a date
UnparsedLabels == { Phrase(<<Word("an"), Word("hour"), Word("ago")>>),
                    Phrase(<<Word("just"), Word("now")>>),
                    Text(<<Num(10), Word("/"), Num(10), Word("/"), Num(2017)>>,
                         "text", "%d/%m/%Y", Combine(282, 0)) }
Labels == RelativeLabels \cup YesterdayLabels \cup {ABSOLUTE_LABEL} \cup UnparsedLabels

\* result blocks: <<>> is a missing tag
Block(title, snippet, link, time_tag) ==
    [title |-> title, snippet |-> snippet, link |-> link, time_tag |-> time_tag]

PROFIT_TITLE   == Phrase(<<Word("Reliance"), Word("posts"), Word("profit")>>)
OFFTOPIC_TITLE == Phrase(<<Word("Firm"), Word("faces"), Word("compliance"), Word("issues")>>)
PHONE_TITLE    == Phrase(<<Word("Reliance"), Word("Jio"), Word("launches"), Word("phone")>>)
APRIL_TITLE    == Phrase(<<Word("April"), Word("sales"), Word("rise")>>)
UPPER_TITLE    == Phrase(<<Word("RELIANCE"), Word("gains")>>)

B_MAIN     == Block(<<PROFIT_TITLE>>, <<Phrase(<<Word("Shares"), Word("rise")>>)>>,
                    <<Url("", "/a", "ved=1")>>, <<Ago(3, "hours")>>)
B_DUP      == Block(<<PROFIT_TITLE>>, <<>>, <<Url("news.example", "/b", "")>>, <<>>)
B_OFFTOPIC == Block(<<OFFTOPIC_TITLE>>, <<Phrase(<<Word("Dividend"), Word("announced")>>)>>,
                    <<Url("news.example", "/c", "utm=x")>>, <<Phrase(<<Word("Yesterday")>>)>>)
B_NOFIN    == Block(<<PHONE_TITLE>>, <<Phrase(<<Word("New"), Word("handset")>>)>>,
                    <<Url("", "/d", "")>>, <<ABSOLUTE_LABEL>>)
B_HINDI    == Block(<<HINDI_TITLE>>, <<Phrase(<<Word("profit"), Word("up")>>)>>,
                    <<Url("news.example", "/e", "")>>,
                    <<Phrase(<<Word("an"), Word("hour"), Word("ago")>>)>>)
B_NOTITLE  == Block(<<>>, <<Phrase(<<Word("Shares"), Word("rise")>>)>>,
                    <<Url("", "/f", "")>>, <<>>)
B_NOLINK   == Block(<<PROFIT_TITLE>>, <<>>, <<>>, <<Ago(2, "days")>>)
B_APRIL    == Block(<<APRIL_TITLE>>, <<>>, <<Url("news.example", "/g", "")>>, <<>>)
B_UPPER    == Block(<<UPPER_TITLE>>, <<>>, <<Url("news.example", "/h", "")>>, <<>>)

\* what the search engine holds for one day's query: its result pages in
\* offset order, cut from this roll of blocks; past the last page it
\* answers with a page without result blocks
BLOCK_ROLL == <<B_MAIN, B_HINDI, B_DUP, B_NOTITLE, B_OFFTOPIC, B_NOFIN, B_NOLINK>>
RollAt(i)  == BLOCK_ROLL[((i - 1) % Len(BLOCK_ROLL)) + 1]
Feed(first, pages, blocks) ==
    [p \in 1..pages |-> [k \in 1..blocks |-> RollAt(first + (p - 1) * blocks + k - 1)]]
FEED_STARTS == {1, 4}
Feeds == { Feed(first, pages, blocks) :
             first \in FEED_STARTS, pages \in 0..MaxPages, blocks \in 1..MaxBlocks }

\* every block a candidate can come from: the roll, and B_MAIN with each label
LabelledBlocks == { [B_MAIN EXCEPT !.time_tag = <<l>>] : l \in Labels }
AllBlocks == { BLOCK_ROLL[i] : i \in 1..Len(BLOCK_ROLL) } \cup LabelledBlocks
                \cup {B_APRIL, B_UPPER}

\* article pages
IsoText(val)        == Text(<<>>, "iso", "", val)
IsoZText(val)       == Text(<<>>, "iso_z", "", val)
FmtText(fmt, val)   == Text(<<>>, "text", fmt, val)
FmtTzText(fmt, val) == Text(<<>>, "text_tz", fmt, val)
JUNK_TEXT           == Text(<<>>, "junk", "", 0)
JSON_NUMBER         == Text(<<>>, "nonstr", "", 0)

NoDates == [k \in {DATE_KEYS[i] : i \in 1..Len(DATE_KEYS)} |-> <<>>]
JDict(type, dates, graph) ==
    [kind |-> "dict", type |-> type, dates |-> dates, graph |-> graph, items |-> <<>>]
JList(items) ==
    [kind |-> "list", type |-> "", dates |-> NoDates, graph |-> <<>>, items |-> items]
JScalar ==
    [kind |-> "scalar", type |-> "", dates |-> NoDates, graph |-> <<>>, items |-> <<>>]
Script(json, data) == [json |-> json, data |-> data]
Meta(attr, key, content) == [attr |-> attr, key |-> key, content |-> content]
TimeTag(datetime, text) == [datetime |-> datetime, text |-> text]
NoVisible == <<<<>>, <<>>, <<>>, <<>>, <<>>>>

ArticlePage(fetch, scripts, metas, times, visible) ==
    [fetch |-> fetch, scripts |-> scripts, metas |-> metas, times |-> times,
     visible |-> visible]

P_ERROR   == ArticlePage("error",  <<>>, <<>>, <<>>, NoVisible)
P_404     == ArticlePage("non200", <<>>, <<>>, <<>>, NoVisible)
P_EMPTY   == ArticlePage("empty",  <<>>, <<>>, <<>>, NoVisible)
P_BARE    == ArticlePage("ok",     <<>>, <<>>, <<>>, NoVisible)
P_JSONLD  == ArticlePage("ok",
    <<Script("valid", JDict("NewsArticle",
        [NoDates EXCEPT !["datePublished"] = <<IsoText(PUBLISHED)>>,
                        !["dateModified"]  = <<IsoText(MODIFIED)>>], <<>>))>>,
    <<Meta("property", "article:modified_time", <<IsoText(MODIFIED)>>)>>, <<>>, NoVisible)
P_GRAPH   == ArticlePage("ok",
    <<Script("nostring", JScalar),
      Script("repairable", JDict("WebPage", NoDates,
        <<JScalar,
          JDict("Article", [NoDates EXCEPT !["dateModified"] =
                 <<FmtTzText("%B %d, %Y %I:%M %p", MODIFIED)>>], <<>>)>>))>>,
    <<>>, <<>>, NoVisible)
P_LIST    == ArticlePage("ok",
    <<Script("invalid", JScalar),
      Script("valid", JList(<<JDict("Organization", NoDates, <<>>),
                              JDict("BlogPosting", [NoDates EXCEPT !["uploadDate"] =
                                     <<IsoZText(PUBLISHED)>>], <<>>)>>))>>,
    <<>>, <<>>, NoVisible)
P_BADJSON == ArticlePage("ok",
    <<Script("valid", JDict("NewsArticle",
        [NoDates EXCEPT !["datePublished"] = <<JSON_NUMBER>>], <<>>))>>,
    <<Meta("property", "article:published_time", <<IsoZText(PUBLISHED)>>)>>,
    <<TimeTag(<<IsoText(PUBLISHED)>>, <<>>)>>, NoVisible)
P_META    == ArticlePage("ok",
    <<Script("invalid", JScalar)>>,
    <<Meta("name", "viewport", <<JUNK_TEXT>>),
      Meta("property", "og:updated_time", <<JUNK_TEXT>>),
      Meta("name", "pubdate", <<FmtText("%Y-%m-%d %H:%M:%S", PUBLISHED)>>),
      Meta("itemprop", "datePublished", <<IsoText(MODIFIED)>>)>>,
    <<>>, NoVisible)
P_ITEMPROP == ArticlePage("ok", <<>>,
    <<Meta("name", "date", <<>>),
      Meta("itemprop", "dateModified", <<IsoText(MODIFIED)>>)>>,
    <<>>, NoVisible)
P_TIME    == ArticlePage("ok", <<>>,
    <<Meta("name", "date", <<JUNK_TEXT>>)>>,
    <<TimeTag(<<JUNK_TEXT>>, <<JUNK_TEXT>>),
      TimeTag(<<>>, <<FmtTzText("%B %d, %Y %I:%M %p", PUBLISHED)>>)>>, NoVisible)
P_VISIBLE_ISO == ArticlePage("ok", <<>>, <<>>, <<TimeTag(<<>>, <<IsoText(MODIFIED)>>)>>,
    <<<<>>, <<>>, <<>>, <<>>, <<IsoZText(PUBLISHED)>>>>)
P_VISIBLE_TEXT == ArticlePage("ok", <<>>, <<>>, <<>>,
    <<<<FmtTzText("Published: %A, %B %d, %Y, %H:%M", MODIFIED)>>, <<>>,
      <<FmtTzText("%B %d, %Y %I:%M %p", PUBLISHED)>>, <<>>, <<>>>>)
P_VISIBLE_PREFIX == ArticlePage("ok", <<>>, <<>>, <<>>,
    <<<<FmtTzText("Published: %A, %B %d, %Y, %H:%M", PUBLISHED)>>, <<>>, <<>>, <<>>, <<>>>>)

ArticlePages == { P_ERROR, P_404, P_EMPTY, P_BARE, P_JSONLD, P_GRAPH, P_LIST, P_BADJSON,
                  P_META, P_ITEMPROP, P_TIME, P_VISIBLE_ISO, P_VISIBLE_TEXT,
                  P_VISIBLE_PREFIX }
\* the article pages served in the runs that page through whole days
RunPages == { P_BARE, P_JSONLD }

\* ------------------------------------------------------------------ state
VARIABLES
    mode,          \* "financial": news_scraper_final.py, "general": news_scraper.py
    feed,          \* the result pages the search engine holds for a day's query
    site,          \* the article page the web serves in this run
    clock,         \* datetime.now() in this run
    pc,            \* "loop" | "request" | "results" | "returned" | "finished"
    current_date,  \* scrape_news_day_by_day: the day being processed
    end_date,      \* scrape_news_day_by_day: last day of the range
    articles,      \* fetch_news_for_date: records collected for the day
    start,         \* fetch_news_for_date: offset of the next request
    retries,       \* fetch_news_for_date: the retry counter
    status,        \* response.status_code of the last request, 0: it raised
    results,       \* the result blocks of the last page
    idx,           \* position of the for loop over results
    extracted,     \* what extract_article_timestamp returned for the candidate
    article_time,  \* the candidate's resolved timestamp
    via,           \* the resolution step that set article_time
    outcome,       \* what became of the last block: "skipped", "kept", "dropped"
    sleeps,        \* the time.sleep calls of the last step, in order
    end_reason,    \* the break that ended the day: "abandoned", "exception", "exhausted"
    day_articles,  \* what fetch_news_for_date returned
    sink,          \* rows of news_results.csv
    requests_sent, \* search-page requests sent for the day
    consec_fail,   \* responses neither 200 nor 429 received in a row
    since_page,    \* such responses since the day's last non-empty page
    rate_limited,  \* 429 responses received for the day
    processed,     \* the days fetch_news_for_date was called for, in call order
    date_input,    \* __main__: the start date as typed
    end_date_input,\* __main__: the end date as typed
    exit_status,   \* the exit status of the process, None while it runs
    pages_done,    \* non-empty pages processed for the day
    saved,         \* the days save_to_csv was called for, in call order
    \* bigquery_backfill.py
    bf_pc,            \* "idle" | "main" | "loop" | "finished" | "raised" | "exited"
    credentials,      \* GOOGLE_APPLICATION_CREDENTIALS is in the environment
    start_date_arg,   \* --start as given on the command line
    end_date_arg,     \* --end as given on the command line
    max_days_per_run, \* --max-days
    bf_start,         \* backfill: start
    bf_end,           \* backfill: end
    cur,              \* backfill: the day to query next
    days_processed,   \* backfill: days handled in this call
    query_result,     \* what the last query_day call gave: rows, nothing, an exception
    uploaded,         \* the days whose CSV is in the bucket, in upload order
    queried,          \* the days queried since the first run, in query order
    next_resume,      \* main: the date backfill returned, None before it returns
    bf_exit           \* exit status of the backfill process, None while it runs

scraper_vars == <<mode, feed, site, clock, pc, current_date, end_date, articles, start, retries,
          status, results, idx, extracted, article_time, via, outcome, sleeps,
          end_reason, day_articles, sink, requests_sent, consec_fail, since_page,
          rate_limited, processed, date_input, end_date_input, exit_status,
          pages_done, saved>>
backfill_args  == <<credentials, end_date_arg, max_days_per_run>>
backfill_vars  == <<bf_pc, backfill_args, start_date_arg, bf_start, bf_end, cur,
                    days_processed, query_result, uploaded, queried, next_resume,
                    bf_exit>>
vars == <<scraper_vars, backfill_vars>>

inputs    == <<mode, feed, site, clock, date_input, end_date_input>>
world     == <<inputs, end_date>>
candidate == <<extracted, article_time, via, outcome>>

Sleep(kind, secs) == [kind |-> kind, secs |-> secs]
Between(lo, hi) == {lo, hi}

ERROR_STATUSES == {500}
\* the statuses the retry branch takes: news_scraper.py has no 429 branch
RetryStatuses(m) ==
    IF m = "financial" THEN ERROR_STATUSES ELSE ERROR_STATUSES \cup {STATUS_TOO_MANY}

\* a ceiling that lets one more failure through
RetriesExhausted_Lenient(r) == r > MAX_RETRIES + 1

\* retries > 3
RetriesExhausted(r) == r > MAX_RETRIES

\* datetime.strptime(s, fmt): ValueError unless s is written in fmt
strptime(s, fmt) == IF s.form = "text" /\ s.fmt = fmt THEN Some(s.val) ELSE Raised

\* what is typed at the prompts: dates as dd-mm-yyyy, a date written as
\* yyyy-mm-dd, text that is no date; the start date may also be left blank
\* (the runs explored give an end date)
INPUT_FORMAT == "%d-%m-%Y"
BLANK        == Text(<<>>, "blank", "", 0)
Malformed    == { IsoText(START_DATE), JUNK_TEXT }
StartInputs  == { FmtText(INPUT_FORMAT, START_DATE) } \cup Malformed \cup {BLANK}
EndInputs    == { FmtText(INPUT_FORMAT, START_DATE + d * MinutesPerDay) :
                    d \in (-1)..(MaxDays - 1) } \cup Malformed

\* state when the script starts, the prompts answered
InitRun ==
    /\ pc = "main"
    /\ current_date = 0 /\ end_date = 0
    /\ exit_status = None
    /\ articles = <<>> /\ start = 0 /\ retries = 0
    /\ status = 0 /\ results = <<>> /\ idx = 1
    /\ extracted = None /\ article_time = None /\ via = "none" /\ outcome = "none"
    /\ sleeps = <<>> /\ end_reason = "none" /\ day_articles = <<>> /\ sink = <<>>
    /\ requests_sent = 0 /\ consec_fail = 0 /\ since_page = 0 /\ rate_limited = 0
    /\ processed = <<>> /\ pages_done = 0 /\ saved = <<>>

\* bigquery_backfill.py is not running
BackfillIdle ==
    /\ bf_pc = "idle" /\ credentials = FALSE
    /\ start_date_arg = BLANK /\ end_date_arg = BLANK /\ max_days_per_run = 0
    /\ bf_start = 0 /\ bf_end = 0 /\ cur = 0 /\ days_processed = 0
    /\ query_result = "none" /\ uploaded = <<>> /\ queried = <<>>
    /\ next_resume = None /\ bf_exit = None

Init ==
    /\ mode \in {"financial", "general"}
    /\ feed \in Feeds
    /\ site \in RunPages
    /\ clock = NOW_A
    /\ date_input \in StartInputs
    /\ end_date_input \in EndInputs
    /\ InitRun
    /\ BackfillIdle

\* __main__: parse the two dates; on ValueError print and exit(), which
\* raises SystemExit(None) and ends the process with status 0; otherwise
\* scrape_news_day_by_day starts with current_date = start_date
Main ==
    /\ pc = "main"
    /\ LET start_date == strptime(date_input, INPUT_FORMAT)
           parsed_end == IF start_date.tag = "some"
                         THEN strptime(end_date_input, INPUT_FORMAT) ELSE Raised
       IN  IF start_date.tag = "some" /\ parsed_end.tag = "some"
           THEN /\ pc' = "loop"
                /\ current_date' = start_date.val
                /\ end_date' = parsed_end.val
                /\ UNCHANGED exit_status
           ELSE /\ pc' = "exited"
                /\ exit_status' = Some(0)
                /\ UNCHANGED <<current_date, end_date>>
    /\ UNCHANGED <<inputs, backfill_vars, processed, saved, pages_done, candidate, articles, start, retries, status,
                   results, idx, sleeps, end_reason, day_articles, sink, requests_sent,
                   consec_fail, since_page, rate_limited>>

\* a day loop that stops before the last day: while current_date < end_date
BeginDay_ExclusiveEnd ==
    /\ pc = "loop"
    /\ current_date < end_date
    /\ pc' = "request"
    /\ articles' = <<>> /\ start' = 0 /\ retries' = 0 /\ pages_done' = 0
    /\ sleeps' = <<>> /\ end_reason' = "none"
    /\ status' = 0 /\ results' = <<>> /\ idx' = 1
    /\ extracted' = None /\ article_time' = None /\ via' = "none" /\ outcome' = "none"
    /\ requests_sent' = 0 /\ consec_fail' = 0 /\ since_page' = 0 /\ rate_limited' = 0
    /\ processed' = Append(processed, current_date)
    /\ UNCHANGED <<world, backfill_vars, exit_status, current_date, day_articles, sink, saved>>

\* while current_date <= end_date: fetch_news_for_date(...) is entered
BeginDay ==
    /\ pc = "loop"
    /\ current_date <= end_date
    /\ pc' = "request"
    /\ articles' = <<>> /\ start' = 0 /\ retries' = 0 /\ pages_done' = 0
    /\ sleeps' = <<>> /\ end_reason' = "none"
    /\ status' = 0 /\ results' = <<>> /\ idx' = 1
    /\ extracted' = None /\ article_time' = None /\ via' = "none" /\ outcome' = "none"
    /\ requests_sent' = 0 /\ consec_fail' = 0 /\ since_page' = 0 /\ rate_limited' = 0
    /\ processed' = Append(processed, current_date)
    /\ UNCHANGED <<world, backfill_vars, exit_status, current_date, day_articles, sink, saved>>

\* the while condition fails: the run is over and the script ends, status 0
EndRun ==
    /\ pc = "loop"
    /\ current_date > end_date
    /\ pc' = "finished"
    /\ exit_status' = Some(0)
    /\ sleeps' = <<>>
    /\ UNCHANGED <<world, backfill_vars, processed, saved, pages_done, candidate, current_date, articles, start, retries, status,
                   results, idx, end_reason, day_articles, sink, requests_sent,
                   consec_fail, since_page, rate_limited>>

\* a 429 branch that also counts the response as a failure
RateLimited_Counted ==
    /\ pc = "request"
    /\ mode = "financial"
    /\ rate_limited < Max429
    /\ status' = STATUS_TOO_MANY
    /\ \E wait \in Between(RATE_LIMIT_MIN, RATE_LIMIT_MAX) :
          sleeps' = <<Sleep("rate_limit", wait)>>
    /\ requests_sent' = requests_sent + 1
    /\ rate_limited' = rate_limited + 1
    /\ consec_fail' = 0
    /\ retries' = retries + 1
    /\ UNCHANGED <<world, backfill_vars, processed, saved, exit_status, pages_done, candidate, pc, current_date, articles, start,
                   results, idx, end_reason, day_articles, sink, since_page>>

\* status 429 in news_scraper_final.py: sleep, then the same request again
RateLimited ==
    /\ pc = "request"
    /\ mode = "financial"
    /\ rate_limited < Max429
    /\ status' = STATUS_TOO_MANY
    /\ \E wait \in Between(RATE_LIMIT_MIN, RATE_LIMIT_MAX) :
          sleeps' = <<Sleep("rate_limit", wait)>>
    /\ requests_sent' = requests_sent + 1
    /\ rate_limited' = rate_limited + 1
    /\ consec_fail' = 0
    /\ UNCHANGED <<world, backfill_vars, processed, saved, exit_status, pages_done, candidate, pc, current_date, articles, start, retries,
                   results, idx, end_reason, day_articles, sink, since_page>>

\* a backoff that grows by two seconds per failure instead of doubling
HttpError_LinearBackoff ==
    /\ pc = "request"
    /\ \E code \in RetryStatuses(mode) :
          /\ status' = code
          /\ rate_limited' = IF code = STATUS_TOO_MANY THEN rate_limited + 1 ELSE rate_limited
          /\ consec_fail' = IF code = STATUS_TOO_MANY THEN 0 ELSE consec_fail + 1
          /\ since_page' = IF code = STATUS_TOO_MANY THEN since_page ELSE since_page + 1
    /\ retries' = retries + 1
    /\ requests_sent' = requests_sent + 1
    /\ IF RetriesExhausted(retries')
       THEN /\ pc' = "returned"
            /\ end_reason' = "abandoned"
            /\ day_articles' = articles
            /\ sleeps' = <<>>
       ELSE /\ sleeps' = <<Sleep("backoff", BACKOFF_BASE * retries')>>
            /\ UNCHANGED <<pc, end_reason, day_articles>>
    /\ UNCHANGED <<world, backfill_vars, processed, saved, exit_status, pages_done, candidate, current_date, articles, start, results, idx, sink>>

\* a retry branch that moves on to the next offset
HttpError_AdvancesOffset ==
    /\ pc = "request"
    /\ \E code \in RetryStatuses(mode) :
          /\ status' = code
          /\ rate_limited' = IF code = STATUS_TOO_MANY THEN rate_limited + 1 ELSE rate_limited
          /\ consec_fail' = IF code = STATUS_TOO_MANY THEN 0 ELSE consec_fail + 1
          /\ since_page' = IF code = STATUS_TOO_MANY THEN since_page ELSE since_page + 1
    /\ retries' = retries + 1
    /\ start' = start + PAGE_SIZE
    /\ requests_sent' = requests_sent + 1
    /\ IF RetriesExhausted(retries')
       THEN /\ pc' = "returned"
            /\ end_reason' = "abandoned"
            /\ day_articles' = articles
            /\ sleeps' = <<>>
       ELSE /\ sleeps' = <<Sleep("backoff", BACKOFF_BASE ^ retries')>>
            /\ UNCHANGED <<pc, end_reason, day_articles>>
    /\ UNCHANGED <<world, backfill_vars, processed, saved, exit_status, pages_done, candidate, current_date, articles, results, idx, sink>>

\* any other status that is not 200: count it, give up or back off
HttpError ==
    /\ pc = "request"
    /\ \E code \in RetryStatuses(mode) :
          /\ status' = code
          /\ rate_limited' = IF code = STATUS_TOO_MANY THEN rate_limited + 1 ELSE rate_limited
          /\ consec_fail' = IF code = STATUS_TOO_MANY THEN 0 ELSE consec_fail + 1
          /\ since_page' = IF code = STATUS_TOO_MANY THEN since_page ELSE since_page + 1
    /\ retries' = retries + 1
    /\ requests_sent' = requests_sent + 1
    /\ IF RetriesExhausted(retries')
       THEN /\ pc' = "returned"
            /\ end_reason' = "abandoned"
            /\ day_articles' = articles
            /\ sleeps' = <<>>
       ELSE /\ sleeps' = <<Sleep("backoff", BACKOFF_BASE ^ retries')>>
            /\ UNCHANGED <<pc, end_reason, day_articles>>
    /\ UNCHANGED <<world, backfill_vars, processed, saved, exit_status, pages_done, candidate, current_date, articles, start, results, idx, sink>>

\* an exception that loses what the day had collected
RequestError_ReturnsNothing ==
    /\ pc = "request"
    /\ status' = 0
    /\ requests_sent' = requests_sent + 1
    /\ pc' = "returned"
    /\ end_reason' = "exception"
    /\ day_articles' = <<>>
    /\ sleeps' = <<>>
    /\ UNCHANGED <<world, backfill_vars, processed, saved, exit_status, pages_done, candidate, current_date, articles,
                   start, retries, results, idx, sink, consec_fail, since_page,
                   rate_limited>>

\* requests.get raises RequestException: break
RequestError ==
    /\ pc = "request"
    /\ status' = 0
    /\ requests_sent' = requests_sent + 1
    /\ pc' = "returned"
    /\ end_reason' = "exception"
    /\ day_articles' = articles
    /\ sleeps' = <<>>
    /\ UNCHANGED <<world, backfill_vars, processed, saved, exit_status, pages_done, candidate, current_date, articles, start, retries, results,
                   idx, sink, consec_fail, since_page, rate_limited>>

\* an empty page handled as one more failure
EmptyPage_AsFailure ==
    /\ pc = "request"
    /\ start \div PAGE_SIZE >= Len(feed)
    /\ status' = STATUS_OK
    /\ results' = <<>>
    /\ requests_sent' = requests_sent + 1
    /\ consec_fail' = 0
    /\ retries' = retries + 1
    /\ pc' = "returned"
    /\ end_reason' = "exhausted"
    /\ day_articles' = articles
    /\ sleeps' = <<>>
    /\ UNCHANGED <<world, backfill_vars, processed, saved, exit_status, pages_done, candidate, current_date, articles, start, idx, sink,
                   since_page, rate_limited>>

\* status 200 and no result block: break
EmptyPage ==
    /\ pc = "request"
    /\ start \div PAGE_SIZE >= Len(feed)
    /\ status' = STATUS_OK
    /\ results' = <<>>
    /\ requests_sent' = requests_sent + 1
    /\ consec_fail' = 0
    /\ pc' = "returned"
    /\ end_reason' = "exhausted"
    /\ day_articles' = articles
    /\ sleeps' = <<>>
    /\ UNCHANGED <<world, backfill_vars, processed, saved, exit_status, pages_done, candidate, current_date, articles, start, retries, idx, sink,
                   since_page, rate_limited>>

\* a page counted as results only when some block has a title and a link
ResultPage_NeedsComplete ==
    /\ pc = "request"
    /\ start \div PAGE_SIZE < Len(feed)
    /\ status' = STATUS_OK
    /\ requests_sent' = requests_sent + 1
    /\ consec_fail' = 0
    /\ sleeps' = <<>>
    /\ LET page == feed[start \div PAGE_SIZE + 1]
       IN  IF \A k \in 1..Len(page) : page[k].title = <<>> \/ page[k].link = <<>>
           THEN /\ results' = <<>>
                /\ pc' = "returned"
                /\ end_reason' = "exhausted"
                /\ day_articles' = articles
                /\ UNCHANGED <<idx, since_page>>
           ELSE /\ results' = page
                /\ idx' = 1
                /\ since_page' = 0
                /\ pc' = "results"
                /\ UNCHANGED <<end_reason, day_articles>>
    /\ UNCHANGED <<world, backfill_vars, processed, saved, exit_status, pages_done, candidate, current_date, articles, start, retries,
                   sink, rate_limited>>

\* status 200 with result blocks: the for loop starts
ResultPage ==
    /\ pc = "request"
    /\ start \div PAGE_SIZE < Len(feed)
    /\ status' = STATUS_OK
    /\ results' = feed[start \div PAGE_SIZE + 1]
    /\ idx' = 1
    /\ requests_sent' = requests_sent + 1
    /\ consec_fail' = 0
    /\ since_page' = 0
    /\ pc' = "results"
    /\ sleeps' = <<>>
    /\ UNCHANGED <<world, backfill_vars, processed, saved, exit_status, pages_done, candidate, current_date, articles, start, retries, end_reason,
                   day_articles, sink, rate_limited>>

\* a loop body whose gate lets either predicate pass the candidate
ProcessFinancial_Either(block) ==
    LET title0   == block.title[1]
        snippet0 == IF block.snippet = <<>> THEN NO_SUMMARY ELSE block.snippet[1]
        link     == clean_url(urljoin(block.link[1]))
        res      == ResolveTimestamp(block, site, current_date, clock)
        title    == IF is_english(title0) THEN title0 ELSE translate_to_english(title0)
        snippet  == IF is_english(snippet0) THEN snippet0 ELSE translate_to_english(snippet0)
        keep     == is_strictly_relevant(title, STOCK_NAME, {}) \/ is_financial_news(title, snippet)
    IN  /\ extracted' = res.extracted
        /\ article_time' = res.article_time
        /\ via' = res.via
        /\ outcome' = IF keep THEN "kept" ELSE "dropped"
        /\ articles' = IF keep
                       THEN Append(articles, [timestamp |-> FormatTimestamp(res.article_time),
                                              title |-> title, summary |-> snippet,
                                              url |-> link])
                       ELSE articles

\* one pass of "for result in results" in news_scraper_final.py
ProcessFinancial(block) ==
    LET title0   == block.title[1]
        snippet0 == IF block.snippet = <<>> THEN NO_SUMMARY ELSE block.snippet[1]
        link     == clean_url(urljoin(block.link[1]))
        res      == ResolveTimestamp(block, site, current_date, clock)
        title    == IF is_english(title0) THEN title0 ELSE translate_to_english(title0)
        snippet  == IF is_english(snippet0) THEN snippet0 ELSE translate_to_english(snippet0)
        keep     == is_strictly_relevant(title, STOCK_NAME, {}) /\ is_financial_news(title, snippet)
    IN  /\ extracted' = res.extracted
        /\ article_time' = res.article_time
        /\ via' = res.via
        /\ outcome' = IF keep THEN "kept" ELSE "dropped"
        /\ articles' = IF keep
                       THEN Append(articles, [timestamp |-> FormatTimestamp(res.article_time),
                                              title |-> title, summary |-> snippet,
                                              url |-> link])
                       ELSE articles

\* one pass of "for result in results" in news_scraper.py
ProcessGeneral(block) ==
    LET title0   == block.title[1]
        summary0 == IF block.snippet = <<>> THEN NO_SUMMARY ELSE block.snippet[1]
        link     == clean_url(urljoin(block.link[1]))
        title    == IF is_english(title0) THEN title0 ELSE translate_to_english(title0)
        summary  == IF is_english(summary0) THEN summary0 ELSE translate_to_english(summary0)
        keep     == is_strictly_relevant(title, STOCK_NAME, {})
    IN  /\ outcome' = IF keep THEN "kept" ELSE "dropped"
        /\ articles' = IF keep
                       THEN Append(articles, [date |-> format_date(current_date),
                                              title |-> title, summary |-> summary,
                                              url |-> link])
                       ELSE articles
        /\ UNCHANGED <<extracted, article_time, via>>

\* the body of the for loop for results[idx]; a block without a title or a
\* link is passed over
ProcessResult ==
    /\ pc = "results"
    /\ idx <= Len(results)
    /\ LET block == results[idx]
       IN  IF block.title = <<>> \/ block.link = <<>>
           THEN /\ outcome' = "skipped"
                /\ UNCHANGED <<articles, extracted, article_time, via>>
           ELSE IF mode = "financial" THEN ProcessFinancial(block)
                ELSE ProcessGeneral(block)
    /\ idx' = idx + 1
    /\ sleeps' = <<>>
    /\ UNCHANGED <<world, backfill_vars, processed, saved, exit_status, pages_done, pc, current_date, start, retries, status, results, end_reason,
                   day_articles, sink, requests_sent, consec_fail, since_page,
                   rate_limited>>

\* an end of page that goes straight to the next request unless the
\* cooldown is due
EndOfPage_NoPolite ==
    /\ pc = "results"
    /\ idx > Len(results)
    /\ start' = start + PAGE_SIZE
    /\ pages_done' = pages_done + 1
    /\ IF mode = "financial"
       THEN \E c \in Between(COOLDOWN_MIN, COOLDOWN_MAX) :
               sleeps' = IF start' % COOLDOWN_EVERY = 0
                         THEN <<Sleep("cooldown", c)>>
                         ELSE <<>>
       ELSE \E d \in Between(GENERAL_MIN, GENERAL_MAX) : sleeps' = <<Sleep("polite", d)>>
    /\ pc' = "request"
    /\ results' = <<>> /\ idx' = 1
    /\ extracted' = None /\ article_time' = None /\ via' = "none" /\ outcome' = "none"
    /\ UNCHANGED <<world, backfill_vars, processed, saved, exit_status, current_date, articles, retries, status,
                   end_reason, day_articles, sink, requests_sent, consec_fail, since_page,
                   rate_limited>>

\* a cooldown that counts requests, failed and rate-limited ones included
EndOfPage_CooldownByRequests ==
    /\ pc = "results"
    /\ idx > Len(results)
    /\ start' = start + PAGE_SIZE
    /\ pages_done' = pages_done + 1
    /\ IF mode = "financial"
       THEN \E d \in Between(POLITE_MIN, POLITE_MAX) :
            \E c \in Between(COOLDOWN_MIN, COOLDOWN_MAX) :
               sleeps' = IF (requests_sent * PAGE_SIZE) % COOLDOWN_EVERY = 0
                         THEN <<Sleep("polite", d), Sleep("cooldown", c)>>
                         ELSE <<Sleep("polite", d)>>
       ELSE \E d \in Between(GENERAL_MIN, GENERAL_MAX) : sleeps' = <<Sleep("polite", d)>>
    /\ pc' = "request"
    /\ results' = <<>> /\ idx' = 1
    /\ extracted' = None /\ article_time' = None /\ via' = "none" /\ outcome' = "none"
    /\ UNCHANGED <<world, backfill_vars, processed, saved, exit_status, current_date, articles, retries, status,
                   end_reason, day_articles, sink, requests_sent, consec_fail, since_page,
                   rate_limited>>

\* after the for loop: next offset, politeness sleep, cooldown; results and
\* the locals of the loop body are not read again before they are reassigned
EndOfPage ==
    /\ pc = "results"
    /\ idx > Len(results)
    /\ start' = start + PAGE_SIZE
    /\ pages_done' = pages_done + 1
    /\ IF mode = "financial"
       THEN \E d \in Between(POLITE_MIN, POLITE_MAX) :
            \E c \in Between(COOLDOWN_MIN, COOLDOWN_MAX) :
               sleeps' = IF start' % COOLDOWN_EVERY = 0
                         THEN <<Sleep("polite", d), Sleep("cooldown", c)>>
                         ELSE <<Sleep("polite", d)>>
       ELSE \E d \in Between(GENERAL_MIN, GENERAL_MAX) : sleeps' = <<Sleep("polite", d)>>
    /\ pc' = "request"
    /\ results' = <<>> /\ idx' = 1
    /\ extracted' = None /\ article_time' = None /\ via' = "none" /\ outcome' = "none"
    /\ UNCHANGED <<world, backfill_vars, processed, saved, exit_status, current_date, articles, retries, status, end_reason,
                   day_articles, sink, requests_sent, consec_fail, since_page,
                   rate_limited>>

\* a day loop that moves on only from a day that gave something to save
FinishDay_StayOnEmpty ==
    /\ pc = "returned"
    /\ LET unique_news == Dedup(day_articles)
       IN  /\ sink' = IF unique_news # <<>> THEN sink \o unique_news ELSE sink
           /\ saved' = IF unique_news # <<>> THEN Append(saved, current_date) ELSE saved
           /\ current_date' = IF unique_news # <<>> THEN current_date + MinutesPerDay
                               ELSE current_date
    /\ pc' = "loop"
    /\ sleeps' = <<>>
    /\ day_articles' = <<>>
    /\ articles' = <<>> /\ start' = 0 /\ retries' = 0 /\ pages_done' = 0
    /\ status' = 0 /\ results' = <<>> /\ idx' = 1
    /\ extracted' = None /\ article_time' = None /\ via' = "none" /\ outcome' = "none"
    /\ UNCHANGED <<world, backfill_vars, processed, exit_status, end_reason, requests_sent, consec_fail, since_page,
                   rate_limited>>

\* a persister that opens the file for writing: open(filename, "w")
FinishDay_Overwrites ==
    /\ pc = "returned"
    /\ LET unique_news == Dedup(day_articles)
       IN  /\ sink' = IF unique_news # <<>> THEN unique_news ELSE sink
           /\ saved' = IF unique_news # <<>> THEN Append(saved, current_date) ELSE saved
    /\ current_date' = current_date + MinutesPerDay
    /\ pc' = "loop"
    /\ sleeps' = <<>>
    /\ day_articles' = <<>>
    /\ articles' = <<>> /\ start' = 0 /\ retries' = 0 /\ pages_done' = 0
    /\ status' = 0 /\ results' = <<>> /\ idx' = 1
    /\ extracted' = None /\ article_time' = None /\ via' = "none" /\ outcome' = "none"
    /\ UNCHANGED <<world, backfill_vars, processed, exit_status, end_reason, requests_sent, consec_fail, since_page,
                   rate_limited>>

\* back in scrape_news_day_by_day: dedup by title, save, next day; the locals
\* of the finished call are gone and day_articles is not read again
FinishDay ==
    /\ pc = "returned"
    /\ LET unique_news == Dedup(day_articles)
       IN  /\ sink' = IF unique_news # <<>> THEN sink \o unique_news ELSE sink
           /\ saved' = IF unique_news # <<>> THEN Append(saved, current_date) ELSE saved
    /\ current_date' = current_date + MinutesPerDay
    /\ pc' = "loop"
    /\ sleeps' = <<>>
    /\ day_articles' = <<>>
    /\ articles' = <<>> /\ start' = 0 /\ retries' = 0 /\ pages_done' = 0
    /\ status' = 0 /\ results' = <<>> /\ idx' = 1
    /\ extracted' = None /\ article_time' = None /\ via' = "none" /\ outcome' = "none"
    /\ UNCHANGED <<world, backfill_vars, processed, exit_status, end_reason, requests_sent, consec_fail, since_page,
                   rate_limited>>

Next ==
    \/ Main
    \/ BeginDay
    \/ EndRun
    \/ RateLimited
    \/ HttpError
    \/ RequestError
    \/ EmptyPage
    \/ ResultPage
    \/ ProcessResult
    \/ EndOfPage
    \/ FinishDay

Spec == Init /\ [][Next]_vars

\* ------------------------------------------- the financial scraper, fair
\* the script is one thread and each of its steps ends: requests carry a
\* timeout and every sleep is finite, so a step that can be taken is taken;
\* the runs start from the feeds of full pages
InitLive ==
    /\ mode = "financial"
    /\ feed \in { Feed(1, pages, MaxBlocks) : pages \in 0..MaxPages }
    /\ site = P_BARE
    /\ clock = NOW_A
    /\ date_input \in StartInputs
    /\ end_date_input \in EndInputs
    /\ InitRun
    /\ BackfillIdle

SpecLive == InitLive /\ [][Next]_vars /\ WF_vars(Next)

\* ------------------------------------------- one candidate, every input
\* the for loop is about to handle the only block of a day's first page
InitResolve ==
    /\ mode \in {"financial", "general"}
    /\ site \in ArticlePages
    /\ clock \in Clock
    /\ current_date \in {START_DATE, START_DATE + MinutesPerDay}
    /\ end_date = current_date
    /\ pc = "results"
    /\ \E b \in AllBlocks : results = <<b>> /\ feed = <<results>>
    /\ idx = 1
    /\ status = STATUS_OK
    /\ requests_sent = 1
    /\ articles = <<>> /\ start = 0 /\ retries = 0
    /\ extracted = None /\ article_time = None /\ via = "none" /\ outcome = "none"
    /\ sleeps = <<>> /\ end_reason = "none" /\ day_articles = <<>> /\ sink = <<>>
    /\ consec_fail = 0 /\ since_page = 0 /\ rate_limited = 0
    /\ processed = <<current_date>> /\ pages_done = 0 /\ saved = <<>>
    /\ date_input = FmtText(INPUT_FORMAT, current_date)
    /\ end_date_input = FmtText(INPUT_FORMAT, end_date)
    /\ exit_status = None
    /\ BackfillIdle

NextResolve == ProcessResult

SpecResolve == InitResolve /\ [][NextResolve]_vars

\* ------------------------------------------------- bigquery_backfill.py
\* the runs explored: ranges of up to MaxSpan days, up to MaxRun days a run
MaxSpan == 3
MaxRun  == 2

BACKFILL_FORMAT == "%Y-%m-%d"
EXIT_FAILURE    == 1

\* datetime.strftime and datetime.date on the minutes of a datetime
strftime(d, fmt) == FmtText(fmt, d)
date(dt)         == (dt \div MinutesPerDay) * MinutesPerDay

\* --start and --end: dates as yyyy-mm-dd, or a date written as dd-mm-yyyy;
\* --end may lie before --start
StartArgs == { FmtText(BACKFILL_FORMAT, START_DATE), FmtText(INPUT_FORMAT, START_DATE) }
EndArgs   == { FmtText(BACKFILL_FORMAT, START_DATE + d * MinutesPerDay) :
                 d \in (-1)..(MaxSpan - 1) } \cup { FmtText(INPUT_FORMAT, START_DATE) }
MaxDaysArgs == 0..MaxRun

\* news_scraper*.py is not running
ScraperIdle ==
    /\ mode = "financial" /\ feed = <<>> /\ site = P_BARE /\ clock = NOW_A
    /\ date_input = BLANK /\ end_date_input = BLANK
    /\ InitRun

\* the command line is parsed and main starts
InitBackfill ==
    /\ ScraperIdle
    /\ bf_pc = "main"
    /\ credentials \in BOOLEAN
    /\ start_date_arg \in StartArgs
    /\ end_date_arg \in EndArgs
    /\ max_days_per_run \in MaxDaysArgs
    /\ bf_start = 0 /\ bf_end = 0 /\ cur = 0 /\ days_processed = 0
    /\ query_result = "none" /\ uploaded = <<>> /\ queried = <<>>
    /\ next_resume = None /\ bf_exit = None

\* main up to the while loop of backfill: without credentials sys.exit(1);
\* strptime of a malformed date raises ValueError, which nothing catches
BackfillMain ==
    /\ bf_pc = "main"
    /\ IF ~credentials
       THEN /\ bf_pc' = "exited" /\ bf_exit' = Some(EXIT_FAILURE)
            /\ UNCHANGED <<bf_start, bf_end, cur>>
       ELSE LET s == strptime(start_date_arg, BACKFILL_FORMAT)
                e == strptime(end_date_arg, BACKFILL_FORMAT)
            IN  IF s.tag # "some" \/ e.tag # "some"
                THEN /\ bf_pc' = "raised" /\ bf_exit' = Some(EXIT_FAILURE)
                     /\ UNCHANGED <<bf_start, bf_end, cur>>
                ELSE /\ bf_start' = date(s.val)
                     /\ bf_end' = date(e.val)
                     /\ cur' = date(s.val)
                     /\ bf_pc' = "loop"
                     /\ UNCHANGED bf_exit
    /\ days_processed' = 0
    /\ UNCHANGED <<scraper_vars, backfill_args, start_date_arg, query_result, uploaded,
                   queried, next_resume>>

\* one pass of the while loop: query_day gives rows, gives nothing or
\* raises (caught: an empty frame); rows are written and uploaded, outside
\* any try, so a failed upload ends the process; then the next day
BackfillDay ==
    /\ bf_pc = "loop"
    /\ cur <= bf_end /\ days_processed < max_days_per_run
    /\ queried' = Append(queried, cur)
    /\ \E r \in {"rows", "empty", "failed"}, upload_ok \in BOOLEAN :
         /\ query_result' = r
         /\ r # "rows" => upload_ok
         /\ IF upload_ok
            THEN /\ uploaded' = IF r = "rows" THEN Append(uploaded, cur) ELSE uploaded
                 /\ cur' = cur + MinutesPerDay
                 /\ days_processed' = days_processed + 1
                 /\ UNCHANGED <<bf_pc, bf_exit>>
            ELSE /\ bf_pc' = "raised" /\ bf_exit' = Some(EXIT_FAILURE)
                 /\ UNCHANGED <<uploaded, cur, days_processed>>
    /\ UNCHANGED <<scraper_vars, backfill_args, start_date_arg, bf_start, bf_end, next_resume>>

\* a backfill that returns the last day it handled
BackfillReturn_LastDay ==
    /\ bf_pc = "loop"
    /\ ~(cur <= bf_end /\ days_processed < max_days_per_run)
    /\ next_resume' = Some(strftime(IF days_processed > 0 THEN cur - MinutesPerDay ELSE cur,
                                    BACKFILL_FORMAT))
    /\ bf_pc' = "finished"
    /\ bf_exit' = Some(0)
    /\ UNCHANGED <<scraper_vars, backfill_args, start_date_arg, bf_start, bf_end, cur,
                   days_processed, query_result, uploaded, queried>>

\* the loop is left: return cur.strftime("%Y-%m-%d"); main prints it and ends
BackfillReturn ==
    /\ bf_pc = "loop"
    /\ ~(cur <= bf_end /\ days_processed < max_days_per_run)
    /\ next_resume' = Some(strftime(cur, BACKFILL_FORMAT))
    /\ bf_pc' = "finished"
    /\ bf_exit' = Some(0)
    /\ UNCHANGED <<scraper_vars, backfill_args, start_date_arg, bf_start, bf_end, cur,
                   days_processed, query_result, uploaded, queried>>

\* the script is started again with the printed date as --start, the other
\* arguments as before
Resume ==
    /\ bf_pc = "finished"
    /\ start_date_arg' = next_resume.val
    /\ bf_pc' = "main"
    /\ next_resume' = None /\ bf_exit' = None
    /\ bf_start' = 0 /\ bf_end' = 0 /\ cur' = 0 /\ days_processed' = 0
    /\ query_result' = "none"
    /\ UNCHANGED <<scraper_vars, backfill_args, uploaded, queried>>

NextBackfill ==
    \/ BackfillMain
    \/ BackfillDay
    \/ BackfillReturn
    \/ Resume

\* each step of the script ends (the query has a timeout, the sleep is
\* finite) and the script is started again whenever it has returned a date
SpecBackfill == InitBackfill /\ [][NextBackfill]_vars /\ WF_vars(NextBackfill)

\* ----------------------------------------------------------------- claims
Abandoned == pc = "returned" /\ end_reason = "abandoned"

C2_ConsecutiveOnly ==
    (mode = "financial" /\ Abandoned) => since_page = retries

\* C3: a 429 in the financial scraper sleeps 30 to 90 seconds and retries the
\* same offset; it changes neither the retry counter, nor the offset, nor the
\* collected articles, and never ends the day.
C3_RateLimitFrame ==
    [][(mode = "financial" /\ requests_sent' = requests_sent + 1
            /\ status' = STATUS_TOO_MANY)
        => /\ retries' = retries
           /\ start' = start
           /\ articles' = articles
           /\ pc' = "request"
           /\ end_reason' = end_reason
           /\ Len(sleeps') = 1
           /\ sleeps'[1].kind = "rate_limit"
           /\ sleeps'[1].secs \in RATE_LIMIT_MIN..RATE_LIMIT_MAX]_vars

C3_Witness ==
    /\ mode = "financial" /\ pc = "request" /\ status = STATUS_TOO_MANY
    /\ rate_limited = Max429 /\ retries = MAX_RETRIES /\ articles # <<>>

\* C4 as stated: every transient failure of a search-page fetch, a network
\* error included, is retried; a day is given up only with the retries
\* exhausted.
C4_RetriedBeforeAbandon ==
    (pc = "returned" /\ end_reason \in {"abandoned", "exception"})
        => RetriesExhausted(retries)

\* C5: a 200 page without result blocks ends the day's pagination at once:
\* the retry counter is untouched, the articles collected so far are
\* returned, and no further request is sent for that day.
C5_EmptyPageEndsDay ==
    /\ [][(requests_sent' = requests_sent + 1 /\ status' = STATUS_OK /\ results' = <<>>)
          => /\ pc' = "returned"
             /\ end_reason' = "exhausted"
             /\ retries' = retries
             /\ articles' = articles
             /\ day_articles' = articles]_vars
    /\ [][pc = "returned" => requests_sent' = requests_sent]_vars

C5_Witness ==
    /\ pc = "returned" /\ end_reason = "exhausted"
    /\ start = 2 * PAGE_SIZE /\ Len(day_articles) >= 2 /\ retries >= 1

\* the for loop of the financial scraper has just resolved a candidate
Resolved == mode = "financial" /\ pc = "results" /\ idx > 1 /\ outcome \in {"kept", "dropped"}
\* the block it came from and that block's time label
ResolvedBlock == results[idx - 1]
\* the query date with the clock's time of day
QueryDateNowTime == Some(Combine(DateOf(current_date), TimeOf(clock)))

\* C6: resolution always produces a value: whatever the article page gives
\* and whether or not a time label exists or parses, the candidate's
\* timestamp is present, and so is the timestamp of every record appended.
C6_AlwaysTimestamp ==
    Resolved => /\ article_time.tag = "some"
                /\ \A i \in 1..Len(articles) : articles[i].timestamp # <<>>

C6_Witness ==
    /\ Resolved /\ outcome = "kept" /\ site.fetch = "error"
    /\ ResolvedBlock.time_tag = <<>> /\ Len(articles) = 1

\* C7: the strategies are tried in order and the first success wins: the
\* article page's timestamp is used whenever there is one, the label is
\* consulted only without it, and the query date with the current time of
\* day is used only when there is neither an article timestamp nor a label
\* that resolves.
C7_OrderedChain ==
    Resolved =>
      /\ extracted.tag = "some" => (via = "article" /\ article_time = extracted)
      /\ via = "label" => (extracted.tag = "none" /\ ResolvedBlock.time_tag # <<>>)
      /\ via = "fallback" => /\ extracted.tag = "none"
                             /\ ResolvedBlock.time_tag = <<>>
                             /\ article_time = QueryDateNowTime
      /\ (via = "label" /\ ResolvedBlock.time_tag[1] = ABSOLUTE_LABEL)
            => article_time = Some(ABSOLUTE_LABEL.val)
      /\ (via = "label" /\ ResolvedBlock.time_tag[1] \in UnparsedLabels)
            => article_time = QueryDateNowTime

C7_Witness ==
    /\ Resolved /\ extracted.tag = "some" /\ ResolvedBlock.time_tag = <<ABSOLUTE_LABEL>>
    /\ article_time = Some(PUBLISHED) /\ site = P_META

\* an article page without structured data, meta tags, time markup or a
\* matching visible-text pattern
NoDateMarkup(page) ==
    /\ page.fetch = "ok" /\ page.scripts = <<>> /\ page.metas = <<>>
    /\ page.times = <<>> /\ page.visible = NoVisible

\* C8 as stated: for every candidate whose article page has no structured
\* data, no meta tags, no time markup and no matching visible-text pattern,
\* resolution returns the query date with the current time of day.
C8_BarePageGivesQueryDate ==
    (Resolved /\ NoDateMarkup(site)) => article_time = QueryDateNowTime

\* C8 amended: ... and whose result block has no time label, or a label that
\* is neither a relative phrase the code resolves nor an absolute date,
\* resolution returns the query date with the current time of day.
C8_BarePageNoLabelGivesQueryDate ==
    (Resolved /\ NoDateMarkup(site)
       /\ (ResolvedBlock.time_tag = <<>> \/ ResolvedBlock.time_tag[1] \in UnparsedLabels))
    => article_time = QueryDateNowTime

C8_Witness ==
    /\ Resolved /\ NoDateMarkup(site) /\ ResolvedBlock.time_tag = <<>>
    /\ article_time = Some(Combine(282, 30)) /\ clock = NOW_B

C10_FailureAbsorbed ==
    (Resolved /\ site.fetch = "ok"
       /\ \/ JsonLdStage(site).tag = "some"
          \/ MetaStage(site).tag = "some"
          \/ TimeStage(site).tag = "some"
          \/ VisibleStage(site).tag = "some")
    => extracted.tag = "some"

\* the step of scrape_news_day_by_day that dedups and saves a finished day
DaySaved == pc = "returned" /\ pc' = "loop"
\* the rows that step appends to the sink
Batch == SubSeq(sink', Len(sink) + 1, Len(sink'))

\* C11: after deduplication a day's batch holds at most one record per exact
\* title, every title of the day is kept, and of the day's records that share
\* a title the one produced last survives.
C11_DedupLastWins ==
    [][DaySaved =>
        /\ \A i, j \in 1..Len(Batch) : Batch[i].title = Batch[j].title => i = j
        /\ \A k \in 1..Len(day_articles) :
              \E i \in 1..Len(Batch) : Batch[i].title = day_articles[k].title
        /\ \A i \in 1..Len(Batch) :
              \E k \in 1..Len(day_articles) :
                 /\ day_articles[k] = Batch[i]
                 /\ \A m \in (k+1)..Len(day_articles) :
                       day_articles[m].title # Batch[i].title]_vars

\* a day with two records titled PROFIT_TITLE was saved: the later one (/b)
\* is in the sink, followed by the translated headline
C11_Witness ==
    /\ pc = "loop" /\ current_date = START_DATE + MinutesPerDay
    /\ Len(sink) = 2
    /\ sink[1].title = PROFIT_TITLE /\ sink[1].url.path = "/b"
    /\ sink[2].title = TRANSLATED_TITLE

\* the for loop is about to handle a block that has a title and a link
AtCandidate ==
    /\ pc = "results" /\ idx <= Len(results)
    /\ results[idx].title # <<>> /\ results[idx].link # <<>>
\* the candidate's title and snippet as the filters see them
Translated(text) == IF is_english(text) THEN text ELSE translate_to_english(text)
CandidateTitle   == Translated(results[idx].title[1])
CandidateSnippet == IF results[idx].snippet = <<>> THEN NO_SUMMARY
                    ELSE Translated(results[idx].snippet[1])
Topical   == is_strictly_relevant(CandidateTitle, STOCK_NAME, {})
Financial == is_financial_news(CandidateTitle, CandidateSnippet)

\* C12: a candidate becomes a record if and only if its title passes the
\* topical predicate (general mode), or the topical and the financial
\* predicate both hold (financial mode); a rejected candidate leaves the
\* day's records as they were.
C12_OutputGating ==
    [][AtCandidate =>
        IF Topical /\ (mode = "financial" => Financial)
        THEN /\ Len(articles') = Len(articles) + 1
             /\ SubSeq(articles', 1, Len(articles)) = articles
             /\ articles'[Len(articles')].title = CandidateTitle
        ELSE articles' = articles]_vars

\* a headline off the subject with "Dividend" in its snippet was rejected by
\* the financial scraper
C12_Witness ==
    /\ mode = "financial" /\ pc = "results" /\ idx = 2
    /\ results[1] = B_OFFTOPIC /\ outcome = "dropped" /\ articles = <<>>

\* the general scraper has just filtered a candidate: its only gate is
\* is_strictly_relevant
Filtered == mode = "general" /\ pc = "results" /\ idx > 1 /\ outcome \in {"kept", "dropped"}
\* the words of the lower-cased title the filter saw
FilteredWords == LowerWords(Translated(results[idx - 1].title[1]))

\* C13: keywords match as whole words only. For subject "Reliance" a title
\* with the word "Reliance" in any letter case passes; a title none of whose
\* words is the first word of a keyword ("reliance", "ril", "mukesh") does
\* not pass, "compliance" and "April" (which contains "ril") included.
C13_WholeWordOnly ==
    Filtered =>
      /\ (\E i \in 1..Len(FilteredWords) : FilteredWords[i] = "reliance")
            => outcome = "kept"
      /\ (\A i \in 1..Len(FilteredWords) :
              FilteredWords[i] \notin {"reliance", "ril", "mukesh"})
            => outcome = "dropped"

C13_Witness ==
    /\ Filtered /\ results[idx - 1] = B_APRIL
    /\ outcome = "dropped" /\ articles = <<>>

\* the first n days from START_DATE on, in ascending order
Days(n) == [i \in 1..n |-> START_DATE + (i - 1) * MinutesPerDay]
\* the number of days of [START_DATE, end_date]
RangeDays == DateOf(end_date) - DateOf(START_DATE) + 1

\* C14: the day loop calls fetch_news_for_date for the days of
\* [start_date, end_date] in ascending order, each once and both endpoints
\* included: the days processed are always the first days of the range, the
\* whole range once the run is over, and the loop moves to the next day from
\* every returned day, whether it was exhausted or abandoned and whatever it
\* collected.
C14_EveryDayOnce ==
    /\ [](pc \notin {"main", "exited"} => \E n \in 0..RangeDays : processed = Days(n))
    /\ [](pc = "finished" => processed = Days(RangeDays))
    /\ [][pc = "returned"
            => (pc' = "loop" /\ current_date' = current_date + MinutesPerDay)]_vars

\* a two-day run is over: the first day saved rows, the last day was
\* abandoned before any page
C14_Witness ==
    /\ pc = "finished" /\ processed = <<START_DATE, START_DATE + MinutesPerDay>>
    /\ end_date = START_DATE + MinutesPerDay
    /\ end_reason = "abandoned" /\ requests_sent = MAX_RETRIES + 1 /\ sink # <<>>

\* one of the two dates typed does not parse as dd-mm-yyyy
MalformedInput ==
    \/ strptime(date_input, INPUT_FORMAT).tag # "some"
    \/ strptime(end_date_input, INPUT_FORMAT).tag # "some"

\* C15 as stated: with a malformed start or end date the program exits with
\* a non-zero status, and no request has been made before the exit.
C15_FailFastNonZero ==
    (MalformedInput /\ pc # "main") =>
        /\ pc = "exited"
        /\ exit_status.tag = "some" /\ exit_status.val # 0
        /\ requests_sent = 0 /\ processed = <<>>

\* the financial scraper is about to send a search-page request
AboutToRequest == mode = "financial" /\ pc = "request"
\* the sleeps taken since the last request include a politeness sleep
PoliteSleepTaken ==
    \E i \in 1..Len(sleeps) :
       sleeps[i].kind = "polite" /\ sleeps[i].secs \in POLITE_MIN..POLITE_MAX

\* C16 as stated: between every two successive search-page requests of the
\* financial scraper a politeness sleep of 5 to 15 seconds is taken.
C16_PoliteBetweenAllRequests ==
    (AboutToRequest /\ (requests_sent > 0 \/ Len(processed) > 1)) => PoliteSleepTaken

\* C16 amended: the politeness sleep of 5 to 15 seconds is taken after each
\* non-empty page, before the next request of that day; a retry after a 429
\* is preceded by the 30 to 90 second sleep and a retry after another status
\* by the backoff sleep instead, and the first request of a day is preceded
\* by no sleep.
C16_PoliteAfterEachPage ==
    AboutToRequest =>
      /\ (requests_sent > 0 /\ status = STATUS_OK)
            => /\ Len(sleeps) >= 1
               /\ sleeps[1].kind = "polite"
               /\ sleeps[1].secs \in POLITE_MIN..POLITE_MAX
      /\ (requests_sent > 0 /\ status = STATUS_TOO_MANY)
            => (Len(sleeps) = 1 /\ sleeps[1].kind = "rate_limit")
      /\ (requests_sent > 0 /\ status \notin {STATUS_OK, STATUS_TOO_MANY})
            => (Len(sleeps) = 1 /\ sleeps[1].kind = "backoff")
      /\ requests_sent = 0 => sleeps = <<>>

C16_Witness ==
    /\ AboutToRequest /\ status = STATUS_OK /\ requests_sent = 2
    /\ start = 2 * PAGE_SIZE /\ sleeps = <<Sleep("polite", POLITE_MAX)>>

\* a cooldown sleep is among the sleeps ss
CooldownTaken(ss) == \E i \in 1..Len(ss) : ss[i].kind = "cooldown"

\* C17: in the financial scraper the 60 to 120 second cooldown is taken
\* exactly by the step that finishes the 3rd, 6th, 9th, ... non-empty page
\* of a day, after that page's politeness sleep, and by no other step;
\* requests that failed or were rate-limited do not count, and the count of
\* pages starts at zero for each day.
C17_CooldownEveryThirdPage ==
    /\ [][mode = "financial" =>
            (CooldownTaken(sleeps')
               <=> (pages_done' = pages_done + 1 /\ pages_done' % 3 = 0))]_vars
    /\ [](CooldownTaken(sleeps) =>
            /\ Len(sleeps) = 2 /\ sleeps[1].kind = "polite"
            /\ sleeps[2].kind = "cooldown"
            /\ sleeps[2].secs \in COOLDOWN_MIN..COOLDOWN_MAX)
    /\ [][(pc = "loop" /\ pc' = "request") => pages_done' = 0]_vars

\* the second day's third page is done and the cooldown taken, after seven
\* requests of which two failed and two were rate-limited
C17_Witness ==
    /\ mode = "financial" /\ pc = "request" /\ Len(processed) = 2
    /\ pages_done = 3 /\ requests_sent = 7 /\ retries = 2 /\ rate_limited = 2
    /\ sleeps = <<Sleep("polite", POLITE_MIN), Sleep("cooldown", COOLDOWN_MAX)>>

\* position in the day's records of the first record titled t
FirstIndex(t) ==
    CHOOSE k \in 1..Len(day_articles) :
        /\ day_articles[k].title = t
        /\ \A m \in 1..(k-1) : day_articles[m].title # t
\* the rows of the sink before the batch are the rows it had
AppendedAtEnd == Len(sink') >= Len(sink) /\ SubSeq(sink', 1, Len(sink)) = sink

\* C18 as stated: the rows of a day are appended after the rows of the days
\* before, and appear in the order in which their candidates were processed:
\* the batch is the day's records with some left out, order kept.
C18_RowsInProcessingOrder ==
    [][DaySaved =>
        /\ AppendedAtEnd
        /\ \A i, j \in 1..Len(Batch) :
              i < j => \E k, m \in 1..Len(day_articles) :
                          k < m /\ day_articles[k] = Batch[i] /\ day_articles[m] = Batch[j]]_vars

\* C18 amended: the rows of a day are appended after the rows of the days
\* before; within the day the rows stand in the order in which their titles
\* were first produced, a title produced more than once keeping the place of
\* its first record.
C18_RowsInFirstTitleOrder ==
    [][DaySaved =>
        /\ AppendedAtEnd
        /\ \A i \in 1..Len(Batch) : \E k \in 1..Len(day_articles) :
              day_articles[k].title = Batch[i].title
        /\ \A i, j \in 1..Len(Batch) :
              i < j => FirstIndex(Batch[i].title) < FirstIndex(Batch[j].title)]_vars

\* two days are saved, each with the row of /b (processed third) ahead of
\* the row of /e (processed second)
C18_Witness ==
    /\ pc = "loop" /\ Len(processed) = 2 /\ Len(sink) = 4
    /\ sink[1].url.path = "/b" /\ sink[2].url.path = "/e"
    /\ sink[3].url.path = "/b" /\ sink[4].url.path = "/e"

\* the backoff sleeps the claim names, by counted failure
BackoffSeconds(k) == CASE k = 1 -> 2 [] k = 2 -> 4 [] k = 3 -> 8

\* C19: the step that counts the k-th failure of a day sleeps 2^k seconds
\* once (2, 4, 8 for k = 1, 2, 3) and stays in the fetch loop; the failure
\* that triggers abandonment (the fourth) takes no sleep.
C19_BackoffDoubles ==
    [][retries' = retries + 1 =>
        IF retries' <= 3
        THEN /\ sleeps' = <<Sleep("backoff", BackoffSeconds(retries'))>>
             /\ pc' = "request"
        ELSE /\ sleeps' = <<>>
             /\ pc' = "returned" /\ end_reason' = "abandoned"]_vars

\* the third failure of a day was followed by the 8 second sleep
C19_Witness ==
    /\ pc = "request" /\ retries = 3 /\ status \in ERROR_STATUSES
    /\ sleeps = <<Sleep("backoff", 8)>>

\* C20: with a finite date range, finitely many 429 responses per day (at
\* most Max429) and finitely many non-empty pages per day (at most MaxPages),
\* the run ends: on well-formed dates scrape_news_day_by_day finishes with
\* every day of the range, the last included, processed.
C20_RunTerminates ==
    <>(\/ pc = "exited"
       \/ (pc = "finished" /\ processed = Days(RangeDays)))

\* a two-day run is over whose last day met Max429 rate-limited responses,
\* three failed responses and MaxPages non-empty pages
C20_Witness ==
    /\ pc = "finished" /\ mode = "financial"
    /\ processed = <<START_DATE, START_DATE + MinutesPerDay>>
    /\ rate_limited = Max429 /\ requests_sent = Max429 + MAX_RETRIES + MaxPages + 1
    /\ end_reason = "exhausted"

\* the day ended by the retry ceiling or by a request exception
GivenUp == end_reason \in {"abandoned", "exception"}

\* C21: abandonment is not fatal and keeps partial results: the step that
\* gives a day up returns the records collected from the pages already
\* processed; the day loop then appends them, deduplicated by title, after
\* the rows already written, the process keeps running, and the next day of
\* the range is fetched.
C21_AbandonKeepsPartial ==
    /\ [][(pc = "request" /\ pc' = "returned" /\ end_reason' \in {"abandoned", "exception"})
            => (day_articles' = articles /\ exit_status' = exit_status)]_vars
    /\ [][(DaySaved /\ GivenUp) =>
            /\ AppendedAtEnd
            /\ \A k \in 1..Len(day_articles) :
                  \E i \in 1..Len(Batch) : Batch[i].title = day_articles[k].title
            /\ \A i \in 1..Len(Batch) :
                  \E k \in 1..Len(day_articles) : day_articles[k] = Batch[i]
            /\ current_date' = current_date + MinutesPerDay
            /\ exit_status' = exit_status]_vars
    /\ [][(pc = "loop" /\ GivenUp /\ current_date <= end_date)
            => (pc' = "request" /\ processed' = Append(processed, current_date))]_vars

\* a day given up by an exception on its third request, after two pages
\* whose three records gave two rows, has been saved and the loop is back at
\* its test with the next day
C21_Witness ==
    /\ pc = "loop" /\ end_reason = "exception" /\ requests_sent = 3
    /\ processed = <<START_DATE>> /\ current_date = START_DATE + MinutesPerDay
    /\ Len(sink) = 2 /\ sink[1].url.path = "/b" /\ sink[2].url.path = "/e"

\* fetch_news_for_date is running
InFetch == pc \in {"request", "results"}

\* C22: every search-page request of a day uses offset 10 x (non-empty pages
\* already processed that day), so the page served is the next one of the
\* day's feed; a request answered by a failure or a 429 leaves the offset as
\* it was; within a day the offset only grows, by 10 at a time; and a day
\* starts with offset 0 and retry counter 0 however the day before ended.
C22_OffsetInvariant ==
    /\ [](InFetch => start = 10 * pages_done)
    /\ [][(pc = "request" /\ pc' = "results") => results' = feed[pages_done + 1]]_vars
    /\ [][(pc = "request" /\ pc' = "request") => start' = start]_vars
    /\ [][(InFetch /\ pc' \in {"request", "results", "returned"})
            => start' \in {start, start + 10}]_vars
    /\ [][(pc = "loop" /\ pc' = "request")
            => (start' = 0 /\ retries' = 0 /\ pages_done' = 0)]_vars

\* on the second day, two pages done, a request at offset 20 has just been
\* answered by the day's second failure, after one 429
C22_Witness ==
    /\ pc = "request" /\ Len(processed) = 2 /\ start = 20 /\ pages_done = 2
    /\ retries = 2 /\ rate_limited = 1 /\ status \in ERROR_STATUSES
    /\ requests_sent = 5

\* a result block without a title or without a link
IsIncomplete(block) == block.title = <<>> \/ block.link = <<>>
AllIncomplete(page) == \A k \in 1..Len(page) : IsIncomplete(page[k])
AtIncomplete == pc = "results" /\ idx <= Len(results) /\ IsIncomplete(results[idx])

\* C23: a result block missing a title or a link is dropped silently: the
\* step over it adds no record, resolves no article timestamp (no article
\* page is fetched), sends no request, leaves the retry counter alone and
\* goes on with the next block; a page whose blocks are all incomplete is
\* served as a page with results, not as exhaustion, and at its end the
\* offset advances by 10 and the next page is requested.
C23_IncompleteBlockDropped ==
    /\ [][AtIncomplete =>
            /\ articles' = articles /\ outcome' = "skipped"
            /\ UNCHANGED <<extracted, article_time, via>>
            /\ retries' = retries /\ requests_sent' = requests_sent
            /\ end_reason' = end_reason
            /\ pc' = "results" /\ idx' = idx + 1 /\ results' = results]_vars
    /\ [][(pc = "request" /\ status' = STATUS_OK /\ pages_done < Len(feed)
              /\ AllIncomplete(feed[pages_done + 1]))
            => (pc' = "results" /\ results' = feed[pages_done + 1]
                  /\ end_reason' = end_reason)]_vars
    /\ [][(pc = "results" /\ idx > Len(results) /\ AllIncomplete(results))
            => (pc' = "request" /\ start' = start + PAGE_SIZE
                  /\ pages_done' = pages_done + 1
                  /\ articles' = articles /\ retries' = retries
                  /\ end_reason' = end_reason)]_vars

\* the first page of the day held only incomplete blocks, nothing was
\* recorded, and the second page has been requested and served
C23_Witness ==
    /\ pc = "results" /\ pages_done = 1 /\ start = PAGE_SIZE
    /\ AllIncomplete(feed[1]) /\ results = feed[2]
    /\ articles = <<>> /\ retries = 0 /\ requests_sent = 2

\* C24: the sink is append-only over a run: every step leaves the rows
\* already written in place, as a prefix of the sink; save_to_csv is called
\* only when a day is finished, at most once for a day, and only with a
\* non-empty batch without two rows of one title, taken from what the day
\* returned; each call puts exactly that batch after the rows written
\* before, and nothing else writes to the sink.
C24_SinkAppendOnly ==
    /\ [][AppendedAtEnd]_vars
    /\ [][(saved' # saved) =>
            /\ DaySaved
            /\ saved' = Append(saved, current_date)
            /\ Len(sink') > Len(sink)
            /\ \A i, j \in 1..Len(Batch) : Batch[i].title = Batch[j].title => i = j
            /\ \A i \in 1..Len(Batch) : \E k \in 1..Len(day_articles) : day_articles[k] = Batch[i]]_vars
    /\ [][(sink' # sink) => (saved' # saved)]_vars
    /\ [](/\ \A i, j \in 1..Len(saved) : saved[i] = saved[j] => i = j
          /\ \A i \in 1..Len(saved) : \E k \in 1..Len(processed) : processed[k] = saved[i])

\* two days were saved one after the other, the second after a day that was
\* given up: the sink holds the first day's batch, then the second day's
C24_Witness ==
    /\ pc = "loop" /\ Len(processed) = 2 /\ end_reason = "exception"
    /\ saved = <<START_DATE, START_DATE + MinutesPerDay>>
    /\ Len(sink) = 4
    /\ sink[1].url.path = "/b" /\ sink[3].url.path = "/b"

\* the days of [a, b], a and b at midnight
DaysIn(a, b) == { d \in { a + k * MinutesPerDay : k \in 0..(MaxSpan + 1) } : d <= b }
Least(m, n)  == IF m <= n THEN m ELSE n
FirstStart   == START_DATE
ParsedEnd    == strptime(end_date_arg, BACKFILL_FORMAT).val
InBackfill   == bf_pc \in {"loop", "finished"}
Crashed      == bf_pc \in {"raised", "exited"}
\* the days queried are FirstStart, the day after, and so on
Contiguous   == \A k \in 1..Len(queried) : queried[k] = FirstStart + (k - 1) * MinutesPerDay
Covered      == Contiguous /\ Len(queried) = Cardinality(DaysIn(FirstStart, ParsedEnd))

\* what holds of every call and of every chain of calls, whatever --max-days
C25_Calls ==
    /\ [](bf_pc = "finished" =>
            /\ days_processed = Least(Cardinality(DaysIn(bf_start, bf_end)), max_days_per_run)
            /\ strptime(next_resume.val, BACKFILL_FORMAT)
                 = Some(bf_start + days_processed * MinutesPerDay))
    /\ [](InBackfill =>
            /\ Len(queried) >= days_processed
            /\ \A k \in 1..days_processed :
                 queried[Len(queried) - days_processed + k] = bf_start + (k - 1) * MinutesPerDay)
    /\ [][(bf_pc = "loop" /\ query_result' = "failed" /\ queried' # queried)
            => (bf_pc' = "loop" /\ uploaded' = uploaded
                  /\ cur' = cur + MinutesPerDay /\ days_processed' = days_processed + 1)]_vars
    /\ [](Contiguous /\ (InBackfill => Len(queried) <= Cardinality(DaysIn(FirstStart, bf_end))))

====
